---- MODULE Spec2Model ----
(***************************************************************************)
(* Model of the bencode codec of src/src/lib.rs: the Value tree, the       *)
(* encoder Value::to_bencode and the recursive decoder parse_bencode that  *)
(* reads one value from a byte-stream cursor.                              *)
(*                                                                         *)
(* A byte is a number 0..255.  A Rust String is modelled by the sequence   *)
(* of its UTF-8 bytes, so String::len is Len and from_utf8_lossy is a     *)
(* conversion of byte sequences that replaces every ill-formed chunk by    *)
(* the three bytes of U+FFFD.                                              *)
(***************************************************************************)
EXTENDS Integers, Sequences, FiniteSets, TLC

VARIABLES vals, nsent, stream, pos, results

vars == <<vals, nsent, stream, pos, results>>

----------------------------------------------------------------------------
(* Bytes the code names *)

ch_i == 105
ch_d == 100
ch_l == 108
ch_e == 101
ch_0 == 48
ch_1 == 49
ch_9 == 57
ch_colon == 58
ch_minus == 45
ch_plus == 43

I32_MAX == 2147483647
I32_MIN == -I32_MAX - 1

----------------------------------------------------------------------------
(* enum Value.  Every variant is a record of the same shape; a Map is the  *)
(* set of its <<key, value>> entries, with no two entries on one key.      *)

VInt(n)  == [tag |-> "Int",  n |-> n, s |-> <<>>, items |-> <<>>, entries |-> {}]
VStr(s)  == [tag |-> "Str",  n |-> 0, s |-> s,    items |-> <<>>, entries |-> {}]
VList(l) == [tag |-> "List", n |-> 0, s |-> <<>>, items |-> l,    entries |-> {}]
VMap(m)  == [tag |-> "Map",  n |-> 0, s |-> <<>>, items |-> <<>>, entries |-> m]
NoValue  == [tag |-> "None", n |-> 0, s |-> <<>>, items |-> <<>>, entries |-> {}]

(* HashMap::keys and HashMap::insert, keys compared by Value's Eq *)
MapKeys(m) == {e[1] : e \in m}
MapInsert(m, k, v) == {e \in m : e[1] # k} \cup {<<k, v>>}

(* derive(PartialEq) on Value *)
RECURSIVE ValueEq(_, _)
ValueEq(a, b) ==
    /\ a.tag = b.tag
    /\ CASE a.tag = "Int"  -> a.n = b.n
         [] a.tag = "Str"  -> a.s = b.s
         [] a.tag = "List" ->
                /\ Len(a.items) = Len(b.items)
                /\ \A j \in 1..Len(a.items) : ValueEq(a.items[j], b.items[j])
         [] a.tag = "Map"  ->
                /\ Cardinality(a.entries) = Cardinality(b.entries)
                /\ \A e \in a.entries :
                      \E f \in b.entries : ValueEq(e[1], f[1]) /\ ValueEq(e[2], f[2])
         [] OTHER -> TRUE

----------------------------------------------------------------------------
(* String::from_utf8_lossy *)

REPLACEMENT == <<239, 191, 189>>

SafeGet(bs, j) == IF j <= Len(bs) THEN bs[j] ELSE 0
IsCont(b) == b >= 128 /\ b <= 191
Utf8CharWidth(b) ==
    IF b < 128 THEN 1
    ELSE IF b >= 194 /\ b <= 223 THEN 2
    ELSE IF b >= 224 /\ b <= 239 THEN 3
    ELSE IF b >= 240 /\ b <= 244 THEN 4
    ELSE 0

Second3Ok(b, c) ==
    \/ b = 224 /\ c >= 160 /\ c <= 191
    \/ b >= 225 /\ b <= 236 /\ IsCont(c)
    \/ b = 237 /\ c >= 128 /\ c <= 159
    \/ b >= 238 /\ b <= 239 /\ IsCont(c)

Second4Ok(b, c) ==
    \/ b = 240 /\ c >= 144 /\ c <= 191
    \/ b >= 241 /\ b <= 243 /\ IsCont(c)
    \/ b = 244 /\ c >= 128 /\ c <= 143

(* The chunk that starts at bs[j]: a well-formed character of n bytes, or  *)
(* an ill-formed chunk of n bytes.                                         *)
Utf8Step(bs, j) ==
    LET b == bs[j]
        w == Utf8CharWidth(b)
        good(n) == [ok |-> TRUE, n |-> n]
        bad(n)  == [ok |-> FALSE, n |-> n]
    IN  CASE w = 1 -> good(1)
          [] w = 2 -> IF IsCont(SafeGet(bs, j + 1)) THEN good(2) ELSE bad(1)
          [] w = 3 -> IF ~Second3Ok(b, SafeGet(bs, j + 1)) THEN bad(1)
                      ELSE IF ~IsCont(SafeGet(bs, j + 2)) THEN bad(2)
                      ELSE good(3)
          [] w = 4 -> IF ~Second4Ok(b, SafeGet(bs, j + 1)) THEN bad(1)
                      ELSE IF ~IsCont(SafeGet(bs, j + 2)) THEN bad(2)
                      ELSE IF ~IsCont(SafeGet(bs, j + 3)) THEN bad(3)
                      ELSE good(4)
          [] OTHER -> bad(1)

RECURSIVE LossyFrom(_, _)
LossyFrom(bs, j) ==
    IF j > Len(bs) THEN <<>>
    ELSE LET st == Utf8Step(bs, j)
         IN  (IF st.ok THEN SubSeq(bs, j, j + st.n - 1) ELSE REPLACEMENT)
                \o LossyFrom(bs, j + st.n)

from_utf8_lossy(bs) == LossyFrom(bs, 1)

----------------------------------------------------------------------------
(* Number formatting and parsing of the standard library *)

IsDigit(b) == b >= ch_0 /\ b <= ch_9

(* format!("{}", n) for n >= 0 *)
RECURSIVE FormatNat(_)
FormatNat(n) ==
    IF n < 10 THEN <<ch_0 + n>>
    ELSE FormatNat(n \div 10) \o <<ch_0 + (n % 10)>>

(* format!("{}", i) for an i32: the sign, then the digits of |i| *)
FormatI32(n) ==
    IF n >= 0 THEN FormatNat(n)
    ELSE LET r == n % 10
             last == (10 - r) % 10
             rest == IF r = 0 THEN -(n \div 10) ELSE -(n \div 10) - 1
         IN  <<ch_minus>> \o (IF rest = 0 THEN <<>> ELSE FormatNat(rest))
                \o <<ch_0 + last>>

ParseOk(n) == [ok |-> TRUE, n |-> n]
ParseFail == [ok |-> FALSE, n |-> 0]

(* i32::from_str digit loop, accumulating upwards with checked_mul and     *)
(* checked_add                                                             *)
RECURSIVE AccPos(_, _, _)
AccPos(ds, j, acc) ==
    IF j > Len(ds) THEN ParseOk(acc)
    ELSE IF ~IsDigit(ds[j]) THEN ParseFail
    ELSE LET d == ds[j] - ch_0
         IN  IF acc > I32_MAX \div 10 THEN ParseFail
             ELSE IF acc * 10 > I32_MAX - d THEN ParseFail
             ELSE AccPos(ds, j + 1, acc * 10 + d)

(* the same loop for a negative literal: checked_mul and checked_sub *)
RECURSIVE AccNeg(_, _, _)
AccNeg(ds, j, acc) ==
    IF j > Len(ds) THEN ParseOk(acc)
    ELSE IF ~IsDigit(ds[j]) THEN ParseFail
    ELSE LET d == ds[j] - ch_0
         IN  IF acc < -(I32_MAX \div 10) THEN ParseFail
             ELSE IF acc * 10 < I32_MIN + d THEN ParseFail
             ELSE AccNeg(ds, j + 1, acc * 10 - d)

(* i32::from_str as it would be with the digits of a negative literal      *)
(* accumulated upwards and negated at the end                              *)
ParseI32_NegateAfter(bs) ==
    IF bs = <<>> THEN ParseFail
    ELSE IF Len(bs) = 1 /\ bs[1] \in {ch_plus, ch_minus} THEN ParseFail
    ELSE IF bs[1] = ch_plus THEN AccPos(Tail(bs), 1, 0)
    ELSE IF bs[1] = ch_minus
         THEN LET r == AccPos(Tail(bs), 1, 0)
              IN  IF r.ok THEN ParseOk(-r.n) ELSE ParseFail
    ELSE AccPos(bs, 1, 0)

(* i32::from_str: empty and a lone sign fail, one leading '+' or '-' is    *)
(* taken as the sign, every other byte must be a digit                     *)
ParseI32(bs) ==
    IF bs = <<>> THEN ParseFail
    ELSE IF Len(bs) = 1 /\ bs[1] \in {ch_plus, ch_minus} THEN ParseFail
    ELSE IF bs[1] = ch_plus THEN AccPos(Tail(bs), 1, 0)
    ELSE IF bs[1] = ch_minus THEN AccNeg(Tail(bs), 1, 0)
    ELSE AccPos(bs, 1, 0)

(* A usize is wider than the integers of this module, so its value is held *)
(* as its decimal digits, most significant first, without leading zeros.   *)
USIZE_MAX == <<49, 56, 52, 52, 54, 55, 52, 52, 48, 55, 51, 55, 48, 57, 53, 53, 49, 54, 49, 53>>
ISIZE_MAX == <<57, 50, 50, 51, 51, 55, 50, 48, 51, 54, 56, 53, 52, 55, 55, 53, 56, 48, 55>>

RECURSIVE NatNorm(_)
NatNorm(ds) == IF Len(ds) > 1 /\ ds[1] = ch_0 THEN NatNorm(Tail(ds)) ELSE ds

RECURSIVE NatLeqFrom(_, _, _)
NatLeqFrom(a, b, j) ==
    IF j > Len(a) THEN TRUE
    ELSE IF a[j] < b[j] THEN TRUE
    ELSE IF a[j] > b[j] THEN FALSE
    ELSE NatLeqFrom(a, b, j + 1)

(* a <= b *)
NatLeq(a, b) == Len(a) < Len(b) \/ (Len(a) = Len(b) /\ NatLeqFrom(a, b, 1))

(* the value of a, for an a that is at most I32_MAX *)
RECURSIVE NatToInt(_, _, _)
NatToInt(a, j, acc) ==
    IF j > Len(a) THEN acc ELSE NatToInt(a, j + 1, acc * 10 + (a[j] - ch_0))

(* usize::from_str digit loop: checked_mul and checked_add on 64 bits *)
RECURSIVE AccLen(_, _, _)
AccLen(ds, j, acc) ==
    IF j > Len(ds) THEN ParseOk(acc)
    ELSE IF ~IsDigit(ds[j]) THEN ParseFail
    ELSE LET nxt == NatNorm(acc \o <<ds[j]>>)
         IN  IF ~NatLeq(nxt, USIZE_MAX) THEN ParseFail
             ELSE AccLen(ds, j + 1, nxt)

(* usize::from_str: empty and a lone sign fail, one leading '+' is taken   *)
(* as the sign, '-' is no digit; Ok carries the digits of the value        *)
ParseUsize(bs) ==
    IF bs = <<>> THEN ParseFail
    ELSE IF Len(bs) = 1 /\ bs[1] \in {ch_plus, ch_minus} THEN ParseFail
    ELSE IF bs[1] = ch_plus THEN AccLen(Tail(bs), 1, <<ch_0>>)
    ELSE AccLen(bs, 1, <<ch_0>>)

----------------------------------------------------------------------------
(* Value::to_bencode.  A HashMap yields its entries in an order the program *)
(* does not choose, so the encoder is the set of the strings it can return. *)

(* the length prefix as it would be with s.chars().count() *)
StrLenChars(s) == Cardinality({j \in 1..Len(s) : ~IsCont(s[j])})

(* s.len(): the length of the String in bytes *)
StrLen(s) == Len(s)

EncodeStr(s) == FormatNat(StrLen(s)) \o <<ch_colon>> \o s

EncodeInt(n) == <<ch_i>> \o FormatI32(n) \o <<ch_e>>

RECURSIVE to_bencode(_), EncodeItems(_), EncodeEntries(_)

(* for item in v { result.push_str(&item.to_bencode()) } *)
EncodeItems(items) ==
    IF items = <<>> THEN {<<>>}
    ELSE {h \o t : h \in to_bencode(Head(items)), t \in EncodeItems(Tail(items))}

(* for (key, val) in hm.iter() { push key.to_bencode() then val.to_bencode() } *)
EncodeEntries(entries) ==
    IF entries = {} THEN {<<>>}
    ELSE UNION {{k \o v \o t : k \in to_bencode(e[1]), v \in to_bencode(e[2]),
                               t \in EncodeEntries(entries \ {e})} : e \in entries}

to_bencode(v) ==
    CASE v.tag = "Map"  -> {<<ch_d>> \o b \o <<ch_e>> : b \in EncodeEntries(v.entries)}
      [] v.tag = "List" -> {<<ch_l>> \o b \o <<ch_e>> : b \in EncodeItems(v.items)}
      [] v.tag = "Str"  -> {EncodeStr(v.s)}
      [] v.tag = "Int"  -> {EncodeInt(v.n)}

----------------------------------------------------------------------------
(* parse_bencode.  The reader is the pair (s, p): the bytes of the stream   *)
(* and the number of bytes consumed.  A call returns the Result and the     *)
(* cursor it leaves.  Kind "Some" is Ok(Some(val)), "None" is Ok(None), the *)
(* kinds "Eof", "Io", "Parse" and "Error" are the variants of BencodeError, *)
(* "Panic" is a call that unwinds with a panic and "Abort" one that ends    *)
(* the process.                                                             *)
(*                                                                          *)
(* The process runs with the allocator and the thread stack of a default    *)
(* build.  What a call asks of them follows the bytes it has read, with two *)
(* exceptions, and for these the outcome is the machine's choice: the       *)
(* buffer of buf.resize(cnt, 0), whose size is the declared length of a     *)
(* string and not the bytes that are there, and the frames of the           *)
(* recursion, one per open container.  A function that has more than one    *)
(* outcome is the set of its outcomes.                                      *)

Some(v, p)    == [kind |-> "Some",  val |-> v,       pos |-> p, msg |-> ""]
None(p)       == [kind |-> "None",  val |-> NoValue, pos |-> p, msg |-> ""]
Err(k, m, p)  == [kind |-> k,       val |-> NoValue, pos |-> p, msg |-> m]
Panic(p)      == [kind |-> "Panic", val |-> NoValue, pos |-> p, msg |-> ""]
(* handle_alloc_error: "memory allocation of N bytes failed", SIGABRT *)
AllocAbort(p) == [kind |-> "Abort", val |-> NoValue, pos |-> p, msg |-> "memory allocation failed"]
(* "thread has overflowed its stack", SIGABRT *)
StackAbort(p) == [kind |-> "Abort", val |-> NoValue, pos |-> p, msg |-> "stack overflow"]

MSG_MISSING == "Map is missing value for key"
(* format!("invalid character: '{x}'") for a u8 x: the byte in decimal *)
InvalidText(x) == "invalid character: '" \o ToString(x) \o "'"

Min(S) == CHOOSE x \in S : \A y \in S : x <= y
Max2(a, b) == IF a >= b THEN a ELSE b

(* A buffer of at most GRANTED bytes is granted on every machine the        *)
(* program runs on (it is the buffer of the BufReader of the callers, 8 KiB)*)
(* and none of more than ADDRESS_SPACE bytes is (2^56, above what a 64-bit  *)
(* machine addresses); in between the allocator grants or refuses.          *)
GRANTED == 8192
ADDRESS_SPACE == <<55, 50, 48, 53, 55, 53, 57, 52, 48, 51, 55, 57, 50, 55, 57, 51, 54>>

(* A thread stack holds the frames of STACK_SAFE_DEPTH nested calls in      *)
(* every build and on every thread of default size: a frame of the          *)
(* unoptimised build is about 3 KB and a thread of std::thread has 2 MiB,   *)
(* which overflow at 722 nested calls; optimised builds and the main thread *)
(* (8 MiB) hold thousands more.  Whether the stack holds more than          *)
(* STACK_SAFE_DEPTH calls is the choice of the build and of the machine.    *)
STACK_SAFE_DEPTH == 128

(* BufRead::read_until(delim): the cursor after the first delim at or after *)
(* p, or the end of the stream when there is none (that is no error)        *)
ReadUntil(s, p, delim) ==
    LET hits == {j \in (p + 1)..Len(s) : s[j] = delim}
    IN  IF hits = {} THEN Len(s) ELSE Min(hits)

(* the lead byte as the terminator 'e' *)
LeadEof_AsTerminator(p) == None(p)

(* read_exact of the lead byte failed with UnexpectedEof *)
LeadEof(p) == Err("Eof", "", p)

(* the invalid byte skipped as if it were the terminator *)
InvalidLead_AsTerminator(p, x) == None(p)

(* x => Err(Error(format!("invalid character: '{x}'"))) *)
InvalidLead(p, x) == Err("Error", InvalidText(x), p)

(* b'i': p1 is the cursor after the lead byte; buf holds the lead byte and  *)
(* the cnt bytes read_until appended (they are appended before they are     *)
(* consumed), and the literal is buf[1..cnt], a panic for cnt = 0           *)
IntArm(s, p1) ==
    LET q   == ReadUntil(s, p1, ch_e)
        cnt == q - p1
    IN  IF cnt = 0 THEN Panic(q)
        ELSE LET r == ParseI32(from_utf8_lossy(SubSeq(s, p1 + 1, q - 1)))
             IN  IF r.ok THEN Some(VInt(r.n), q) ELSE Err("Parse", "", q)

(* the empty string returned with the ':' left in the stream *)
ZeroArm_KeepDelimiter(s, p1) == Some(VStr(<<>>), p1)

(* b'0': read_until(b':') and the result of it dropped *)
ZeroArm(s, p1) == Some(VStr(<<>>), ReadUntil(s, p1, ch_colon))

(* read_exact(&mut buf[0..cnt]) and String::from_utf8_lossy(&buf[..])       *)
(* .to_string(), for a cnt held in digits: a short read_exact consumes what *)
(* is left and is an Io error.  A cnt of ten digits or more is above the    *)
(* length of every stream held here.                                        *)
StrPayload(s, q, n) ==
    IF Len(n) > 9 THEN Err("Io", "UnexpectedEof", Len(s))
    ELSE LET cnt == NatToInt(n, 1, 0)
         IN  IF q + cnt > Len(s) THEN Err("Io", "UnexpectedEof", Len(s))
             ELSE Some(VStr(from_utf8_lossy(SubSeq(s, q + 1, q + cnt))), q + cnt)

(* b'1'..=b'9': buf holds the lead byte and the bytes read_until appended,  *)
(* the length is buf[0..buf.len() - 1].  buf.resize(cnt, 0) is a panic      *)
(* ("capacity overflow") for a cnt above isize::MAX and an abort when the   *)
(* allocator refuses the buffer; the bytes are read after it.               *)
StrArm(s, p1) ==
    LET q  == ReadUntil(s, p1, ch_colon)
        r  == ParseUsize(from_utf8_lossy(SubSeq(s, p1, q - 1)))
    IN  IF ~r.ok THEN {Err("Parse", "", q)}
        ELSE IF ~NatLeq(r.n, ISIZE_MAX) THEN {Panic(q)}
        ELSE IF ~NatLeq(r.n, ADDRESS_SPACE) THEN {AllocAbort(q)}
        ELSE IF ~NatLeq(r.n, FormatNat(GRANTED))
        THEN {AllocAbort(q), StrPayload(s, q, r.n)}
        ELSE {StrPayload(s, q, r.n)}

(* the map built so far returned, the key without a value dropped *)
MissingValue_DropKey(map, key, p) == Some(VMap(map), p)

(* None => return Err(Error("Map is missing value for key".to_string())) *)
MissingValue(map, key, p) == Err("Error", MSG_MISSING, p)

(* The reader is a stream held in memory: a read fails only at its end, so  *)
(* the arms for other io errors (Io from the lead byte, "failed to read     *)
(* until") are never taken.  d is the number of calls of parse_bencode that *)
(* are open around the call.                                                *)
RECURSIVE parse_bencode(_, _, _), ListLoop(_, _, _, _), MapLoop(_, _, _, _)

(* b'l': loop { match parse_bencode(reader)? { None => return, Some(v) =>   *)
(* list.push(v) } }                                                         *)
ListLoop(s, p, d, list) ==
    UNION {CASE r.kind = "None" -> {Some(VList(list), r.pos)}
             [] r.kind = "Some" -> ListLoop(s, r.pos, d, Append(list, r.val))
             [] OTHER -> {r}
           : r \in parse_bencode(s, p, d + 1)}

(* the value of an entry: map.insert(key, val), or the error for Ok(None) *)
MapValue(s, d, map, k) ==
    UNION {CASE v.kind = "Some" -> MapLoop(s, v.pos, d, MapInsert(map, k.val, v.val))
             [] v.kind = "None" -> {MissingValue(map, k.val, v.pos)}
             [] OTHER -> {v}
           : v \in parse_bencode(s, k.pos, d + 1)}

(* b'd': loop { key (None => return), then value, then map.insert } *)
MapLoop(s, p, d, map) ==
    UNION {CASE k.kind = "None" -> {Some(VMap(map), k.pos)}
             [] k.kind = "Some" -> MapValue(s, d, map, k)
             [] OTHER -> {k}
           : k \in parse_bencode(s, p, d + 1)}

(* the call when its frame is on the stack *)
ParseArms(s, p, d) ==
    IF p >= Len(s) THEN {LeadEof(p)}
    ELSE LET b  == s[p + 1]
             p1 == p + 1
         IN  CASE b = ch_i -> {IntArm(s, p1)}
               [] b = ch_d -> MapLoop(s, p1, d, {})
               [] b = ch_l -> ListLoop(s, p1, d, <<>>)
               [] b = ch_e -> {None(p1)}
               [] b = ch_0 -> {ZeroArm(s, p1)}
               [] b >= ch_1 /\ b <= ch_9 -> StrArm(s, p1)
               [] OTHER -> {InvalidLead(p1, b)}

parse_bencode(s, p, d) ==
    IF d >= STACK_SAFE_DEPTH THEN {StackAbort(p)} \cup ParseArms(s, p, d)
    ELSE ParseArms(s, p, d)

----------------------------------------------------------------------------
(* Bounds of the model *)

MaxListLen  == 2   \* items of a list built from leaves
MaxMapSize  == 2   \* entries of a map built from leaves
MaxDepth    == 2   \* nesting depth of the values that are encoded
MaxVals     == 2   \* values written to one stream
MaxRawLen   == 3   \* length of the arbitrary byte strings
MaxBodyLen  == 2   \* length of the integer literals i<body>e
MaxPayload  == 2   \* length of the string payloads
MaxCtxDepth == 2   \* open containers around a malformed element
MaxCalls    == 2   \* calls of parse_bencode on a reader over a raw stream
(* The values that are encoded.  LongStr is "e:i0ld\u{e9}12": ten bytes,   *)
(* nine characters, with every tag and delimiter of the format in it.      *)
LongStr == <<101, 58, 105, 48, 108, 100, 195, 169, 49, 50>>

KeyLeaves == {VStr(<<>>), VStr(LongStr), VInt(I32_MIN)}
ValLeaves == {VInt(I32_MAX), VStr(<<ch_e, ch_colon>>), VStr(<<>>)}
Leaves == KeyLeaves \cup ValLeaves
Simple == {VInt(-1), VStr(<<>>)}

SeqsUpTo(S, n) == UNION {[1..k -> S] : k \in 0..n}

LeafLists == {VList(l) : l \in SeqsUpTo(ValLeaves, MaxListLen)}
LeafMaps ==
    {VMap(m) : m \in {m \in SUBSET (KeyLeaves \X ValLeaves) :
                        /\ Cardinality(m) <= MaxMapSize
                        /\ Cardinality(MapKeys(m)) = Cardinality(m)}}

(* one more level around a container: as the first of two items, as the   *)
(* value of an entry, as the key of an entry                               *)
Wrap(c) == {VList(<<c, VInt(I32_MIN)>>),
            VMap({<<VStr(LongStr), c>>}), VMap({<<c, VStr(<<>>)>>})}

RECURSIVE Containers(_)
Containers(d) ==
    IF d <= 1 THEN LeafLists \cup LeafMaps
    ELSE UNION {Wrap(c) : c \in Containers(d - 1)}

Values == Leaves \cup UNION {Containers(d) : d \in 1..MaxDepth}

Forests ==
    {<<v>> : v \in Values}
        \cup (IF MaxVals >= 2
              THEN UNION {{<<v, VStr(<<>>)>>, <<VInt(-1), v>>} : v \in Values}
              ELSE {})
        \cup SeqsUpTo(Simple, MaxVals)

----------------------------------------------------------------------------
(* The byte strings a reader is opened on without having been written by   *)
(* the encoder.                                                            *)

(* i e d l 0 1 : - \xFF *)
RawAlphabet == {ch_i, ch_e, ch_d, ch_l, ch_0, ch_1, ch_colon, ch_minus, 255}
ShortInputs == SeqsUpTo(RawAlphabet, MaxRawLen)

(* integer literals: - + 0 1 9 a \xFF, and the literals around the ends of *)
(* the 32-bit range                                                        *)
BodyAlphabet == {ch_minus, ch_plus, ch_0, ch_1, ch_9, 97, 255}
MaxDigits   == <<50, 49, 52, 55, 52, 56, 51, 54, 52, 55>>   \* 2147483647
OverDigits  == <<50, 49, 52, 55, 52, 56, 51, 54, 52, 56>>   \* 2147483648
UnderDigits == <<50, 49, 52, 55, 52, 56, 51, 54, 52, 57>>   \* 2147483649
WrapDigits  == <<52, 50, 57, 52, 57, 54, 55, 50, 57, 55>>   \* 4294967297
EdgeBodies ==
    {MaxDigits, OverDigits, WrapDigits,
     <<ch_minus>> \o MaxDigits, <<ch_minus>> \o OverDigits,
     <<ch_minus>> \o UnderDigits, <<ch_minus>> \o WrapDigits,
     <<ch_plus>> \o MaxDigits, <<ch_0, ch_0>> \o MaxDigits,
     <<ch_minus, ch_0>> \o OverDigits, MaxDigits \o <<ch_0>>}
IntBodies == SeqsUpTo(BodyAlphabet, MaxBodyLen) \cup EdgeBodies
IntInputs == {<<ch_i>> \o b \o <<ch_e>> : b \in IntBodies}
TruncatedIntInputs == {<<ch_i>> \o b : b \in IntBodies}

(* strings: a declared length N, ':' and a payload of e : i 0 \xC3 \xA9     *)
(* \xFF that is as long as, longer than or shorter than N                   *)
PayloadAlphabet == {ch_e, ch_colon, ch_i, ch_0, 195, 169, 255}
Payloads == SeqsUpTo(PayloadAlphabet, MaxPayload) \cup {LongStr, LongStr \o <<ch_e>>}
(* declared lengths around the limits of buf.resize and of usize:          *)
(* 9000, 123456789, 2000000000, isize::MAX, isize::MAX + 1, 10^19,          *)
(* usize::MAX, usize::MAX + 1                                               *)
HugeLens ==
    { <<57, 48, 48, 48>>,
      <<49, 50, 51, 52, 53, 54, 55, 56, 57>>,
      <<50, 48, 48, 48, 48, 48, 48, 48, 48, 48>>,
      ISIZE_MAX,
      <<57, 50, 50, 51, 51, 55, 50, 48, 51, 54, 56, 53, 52, 55, 55, 53, 56, 48, 56>>,
      <<49, 48, 48, 48, 48, 48, 48, 48, 48, 48, 48, 48, 48, 48, 48, 48, 48, 48, 48, 48>>,
      USIZE_MAX,
      <<49, 56, 52, 52, 54, 55, 52, 52, 48, 55, 51, 55, 48, 57, 53, 53, 49, 54, 49, 54>> }
HugePayloads == {<<>>, <<97, 98>>}
HugeLenInputs ==
    {pre \o ds \o <<ch_colon>> \o pl :
        pre \in {<<>>, <<ch_l>>}, ds \in HugeLens, pl \in HugePayloads}
StrInputs ==
    {FormatNat(n) \o <<ch_colon>> \o pl :
        n \in 0..(MaxPayload + 1) \cup {Len(LongStr), Len(LongStr) + 1}, pl \in Payloads}
    \cup HugeLenInputs

(* open containers: the bytes read so far and what the innermost open      *)
(* container expects next ("elem" of a list, "key" or "value" of a map)     *)
Openers ==
    {[bytes |-> <<ch_l>> \o pre, expect |-> "elem"] :
        pre \in {<<>>, <<ch_i, ch_minus, ch_1, ch_e>>, <<ch_0, ch_colon>>}}
    \cup {[bytes |-> <<ch_d>> \o pre, expect |-> "key"] :
        pre \in {<<>>, <<ch_1, ch_colon, 97, ch_l, ch_e>>}}
    \cup {[bytes |-> <<ch_d>> \o pre \o key, expect |-> "value"] :
        pre \in {<<>>, <<ch_1, ch_colon, 97, ch_l, ch_e>>},
                 key \in {<<ch_0, ch_colon>>, <<ch_1 + 2, ch_colon, 102, 111, 111>>}}

RECURSIVE Contexts(_)
Contexts(d) ==
    IF d = 0 THEN {[bytes |-> <<>>, expect |-> "top"]}
    ELSE LET P == Contexts(d - 1)
         IN  P \cup {[bytes |-> c.bytes \o o.bytes, expect |-> o.expect] :
                        c \in P, o \in Openers}

AllContexts == Contexts(MaxCtxDepth)

(* what follows the malformed place *)
Rests == {<<>>, <<ch_e, ch_e>>}
(* bytes that are no tag: x : \xFF *)
BadLeads == {120, ch_colon, 255}

LeadEofInputs == {c.bytes : c \in AllContexts}
BadLeadInputsOf ==
    [b \in BadLeads |-> {c.bytes \o <<b>> \o r : c \in AllContexts, r \in Rests}]
BadLeadInputs == UNION {BadLeadInputsOf[b] : b \in BadLeads}
MissingValueInputs ==
    {c.bytes \o <<ch_e>> \o r : c \in {c \in AllContexts : c.expect = "value"}, r \in Rests}

(* what follows a zero-length string, with the value it decodes to *)
ZeroTails ==
    { [bytes |-> <<ch_i, ch_minus, ch_1, ch_e>>, val |-> VInt(-1)],
      [bytes |-> <<ch_1, ch_colon, ch_e>>,       val |-> VStr(<<ch_e>>)],
      [bytes |-> <<ch_0, ch_colon>>,             val |-> VStr(<<>>)],
      [bytes |-> <<ch_l, ch_e>>,                 val |-> VList(<<>>)] }
ZeroInputs ==
    {<<ch_0, ch_colon>> \o t.bytes : t \in ZeroTails}
    \cup {<<o, ch_0, ch_colon>> \o t.bytes \o <<ch_e>> : o \in {ch_l, ch_d}, t \in ZeroTails}

RawInputs == ShortInputs \cup IntInputs \cup TruncatedIntInputs \cup StrInputs
                \cup LeadEofInputs \cup BadLeadInputs \cup MissingValueInputs
                \cup ZeroInputs

----------------------------------------------------------------------------
(* The program: values are written to a stream with to_bencode, then the    *)
(* reader calls parse_bencode on it.                                        *)

Last(sq) == sq[Len(sq)]

Init ==
    /\ \/ vals \in Forests /\ stream = <<>>
       \/ vals = <<>> /\ stream \in RawInputs
    /\ nsent = 0
    /\ pos = 0
    /\ results = <<>>

(* to_bencode calls itself once per level of the value: the levels of v *)
RECURSIVE Depth(_)
Depth(v) ==
    CASE v.tag = "List" ->
            1 + (IF v.items = <<>> THEN 0
                 ELSE CHOOSE m \in {Depth(v.items[j]) : j \in 1..Len(v.items)} :
                        \A j \in 1..Len(v.items) : Depth(v.items[j]) <= m)
      [] v.tag = "Map" ->
            1 + (IF v.entries = {} THEN 0
                 ELSE CHOOSE m \in {Depth(e[1]) : e \in v.entries}
                                      \cup {Depth(e[2]) : e \in v.entries} :
                        \A e \in v.entries : Depth(e[1]) <= m /\ Depth(e[2]) <= m)
      [] OTHER -> 1

(* what a call of to_bencode(v) does: it returns one of its strings, or,    *)
(* for a value of more levels than every stack holds, it may overflow the   *)
(* stack                                                                    *)
EncodeOutcomes(v) ==
    {[kind |-> "Ok", bytes |-> b] : b \in to_bencode(v)}
        \cup (IF Depth(v) > STACK_SAFE_DEPTH
              THEN {[kind |-> "Abort", bytes |-> <<>>]} ELSE {})

(* parse_bencode borrows the reader and can be called on it again after   *)
(* any call that returned or unwound; an abort ends the process           *)
ProcessAlive == IF results = <<>> THEN TRUE ELSE Last(results).kind # "Abort"

(* one call of to_bencode, its result appended to the stream *)
Encode ==
    /\ nsent < Len(vals)
    /\ ProcessAlive
    /\ \E o \in EncodeOutcomes(vals[nsent + 1]) :
          IF o.kind = "Ok"
          THEN /\ stream' = stream \o o.bytes
               /\ nsent' = nsent + 1
               /\ UNCHANGED results
          ELSE /\ results' = Append(results, [from |-> pos, kind |-> "Abort",
                                              val |-> NoValue, pos |-> pos,
                                              msg |-> "stack overflow"])
               /\ UNCHANGED <<stream, nsent>>
    /\ UNCHANGED <<vals, pos>>

(* one call of parse_bencode on the reader, from a caller that has the      *)
(* stack of a thread before it                                              *)
Decode ==
    /\ nsent = Len(vals)
    /\ ProcessAlive
    /\ Len(results) < Max2(MaxCalls, Len(vals) + 1)
    /\ \E r \in parse_bencode(stream, pos, 0) :
          /\ results' = Append(results, [from |-> pos, kind |-> r.kind, val |-> r.val,
                                         pos |-> r.pos, msg |-> r.msg])
          /\ pos' = r.pos
    /\ UNCHANGED <<vals, nsent, stream>>

Next == Encode \/ Decode

Spec == Init /\ [][Next]_vars
----------------------------------------------------------------------------
(* The wire format as the specification words it, as a recogniser of byte  *)
(* strings: RefEncodes(bs, v) says that bs is an encoding of v.            *)

RECURSIVE Pow10(_)
Pow10(k) == IF k = 0 THEN 1 ELSE 10 * Pow10(k - 1)

(* n / m rounded towards zero *)
Trunc(n, m) ==
    IF n >= 0 THEN n \div m
    ELSE IF n % m = 0 THEN n \div m ELSE (n \div m) + 1

(* the decimal digit of |n| with weight 10^k *)
AbsDigit(n, k) ==
    LET q == Trunc(n, Pow10(k))
    IN  IF q >= 0 THEN q % 10 ELSE (10 - (q % 10)) % 10

(* ds is the decimal text of |n|: digits only, no leading zero *)
RefDecimal(ds, n) ==
    /\ Len(ds) >= 1
    /\ Len(ds) <= 10
    /\ LET top == Trunc(n, Pow10(Len(ds) - 1))
       IN  /\ top >= -9
           /\ top <= 9
           /\ Len(ds) > 1 => top # 0
    /\ \A j \in 1..Len(ds) : ds[j] = ch_0 + AbsDigit(n, Len(ds) - j)

(* the number of decimal digits of |n|, for an n of at most ten digits *)
NumDigits(n) ==
    IF Trunc(n, Pow10(9)) # 0 THEN 10
    ELSE Min({k \in 1..9 : Trunc(n, Pow10(k)) = 0})

RefInt(bs, n) ==
    /\ Len(bs) >= 3
    /\ bs[1] = ch_i
    /\ bs[Len(bs)] = ch_e
    /\ IF n < 0
       THEN bs[2] = ch_minus /\ RefDecimal(SubSeq(bs, 3, Len(bs) - 1), n)
       ELSE RefDecimal(SubSeq(bs, 2, Len(bs) - 1), n)

RefStr(bs, s) ==
    LET k == Len(bs) - Len(s)
    IN  /\ k >= 2
        /\ bs[k] = ch_colon
        /\ RefDecimal(SubSeq(bs, 1, k - 1), Len(s))
        /\ SubSeq(bs, k + 1, Len(bs)) = s

RECURSIVE SumLen(_, _), SetSumLen(_), RefLen(_)

(* the number of bytes the wire format gives to v *)
RefLen(v) ==
    CASE v.tag = "Int"  -> 2 + NumDigits(v.n) + (IF v.n < 0 THEN 1 ELSE 0)
      [] v.tag = "Str"  -> NumDigits(Len(v.s)) + 1 + Len(v.s)
      [] v.tag = "List" -> 2 + SumLen(v.items, 1)
      [] v.tag = "Map"  -> 2 + SetSumLen(v.entries)
      [] OTHER -> 0

SumLen(items, j) ==
    IF j > Len(items) THEN 0 ELSE RefLen(items[j]) + SumLen(items, j + 1)

SetSumLen(entries) ==
    IF entries = {} THEN 0
    ELSE LET e == CHOOSE e \in entries : TRUE
         IN  RefLen(e[1]) + RefLen(e[2]) + SetSumLen(entries \ {e})

RECURSIVE RefEncodes(_, _), RefItems(_, _), RefEntries(_, _)

(* bs is the encodings of the items, in list order *)
RefItems(bs, items) ==
    IF items = <<>> THEN bs = <<>>
    ELSE LET k == RefLen(Head(items))
         IN  /\ k <= Len(bs)
             /\ RefEncodes(SubSeq(bs, 1, k), Head(items))
             /\ RefItems(SubSeq(bs, k + 1, Len(bs)), Tail(items))

(* bs is, for each entry once and in some order of the entries, the        *)
(* encoding of the key followed at once by the encoding of the value       *)
RefEntries(bs, entries) ==
    IF entries = {} THEN bs = <<>>
    ELSE \E e \in entries :
            LET k == RefLen(e[1])
                m == k + RefLen(e[2])
            IN  /\ m <= Len(bs)
                /\ RefEncodes(SubSeq(bs, 1, k), e[1])
                /\ RefEncodes(SubSeq(bs, k + 1, m), e[2])
                /\ RefEntries(SubSeq(bs, m + 1, Len(bs)), entries \ {e})

RefEncodes(bs, v) ==
    CASE v.tag = "Int"  -> RefInt(bs, v.n)
      [] v.tag = "Str"  -> RefStr(bs, v.s)
      [] v.tag = "List" -> /\ Len(bs) >= 2
                           /\ bs[1] = ch_l
                           /\ bs[Len(bs)] = ch_e
                           /\ RefItems(SubSeq(bs, 2, Len(bs) - 1), v.items)
      [] v.tag = "Map"  -> /\ Len(bs) >= 2
                           /\ bs[1] = ch_d
                           /\ bs[Len(bs)] = ch_e
                           /\ RefEntries(SubSeq(bs, 2, Len(bs) - 1), v.entries)
      [] OTHER -> FALSE

(* The integer literals of the wire format: an optional '-' and one or     *)
(* more digits, with a value in the 32-bit range.  The range is decided on *)
(* the digits, most significant first, after the leading zeros.            *)
AllDigits(ds) == ds # <<>> /\ \A j \in 1..Len(ds) : IsDigit(ds[j])

RECURSIVE StripZeros(_)
StripZeros(ds) == IF Len(ds) > 1 /\ ds[1] = ch_0 THEN StripZeros(Tail(ds)) ELSE ds

RECURSIVE DigitsLeq(_, _, _)
DigitsLeq(a, b, j) ==
    IF j > Len(a) THEN TRUE
    ELSE IF a[j] < b[j] THEN TRUE
    ELSE IF a[j] > b[j] THEN FALSE
    ELSE DigitsLeq(a, b, j + 1)

MagnitudeFits(ds, limit) ==
    LET z == StripZeros(ds)
    IN  Len(z) < Len(limit) \/ (Len(z) = Len(limit) /\ DigitsLeq(z, limit, 1))

RefLiteral(body) ==
    IF body # <<>> /\ body[1] = ch_minus
    THEN AllDigits(Tail(body)) /\ MagnitudeFits(Tail(body), OverDigits)
    ELSE AllDigits(body) /\ MagnitudeFits(body, MaxDigits)

RECURSIVE RefMagnitude(_, _, _)
RefMagnitude(ds, sign, acc) ==
    IF ds = <<>> THEN acc
    ELSE RefMagnitude(Tail(ds), sign, acc * 10 + sign * (Head(ds) - ch_0))

RefLiteralValue(body) ==
    IF body[1] = ch_minus THEN RefMagnitude(Tail(body), -1, 0)
    ELSE RefMagnitude(body, 1, 0)

----------------------------------------------------------------------------
(* Properties *)

Decoded == results # <<>>
First == results[1]
Written == nsent = Len(vals) /\ (vals = <<>> => stream = <<>>)

(* C1: round trip.  When the stream holds exactly one to_bencode(v), the   *)
(* first parse_bencode call returns Ok(Some(w)) with w equal to v: integers *)
(* by value (the ends of the 32-bit range included), strings by content,   *)
(* lists item by item in order, maps as sets of entries whatever the order *)
(* the entries were written in.                                            *)
C1_RoundTrip ==
    (Len(vals) = 1 /\ nsent = 1 /\ Decoded) =>
        /\ First.kind = "Some"
        /\ ValueEq(First.val, vals[1])
        /\ ValueEq(vals[1], First.val)

C1_Witness ==
    /\ Len(vals) = 1
    /\ Decoded
    /\ vals[1].tag = "Map"
    /\ \E e \in vals[1].entries :
          /\ e[1].tag = "Map"
          /\ Cardinality(e[1].entries) = 2
          /\ VInt(I32_MIN) \in MapKeys(e[1].entries)
          /\ VInt(I32_MAX) \in {f[2] : f \in e[1].entries}
    /\ First.kind = "Some"

(* C2: byte-string fidelity.  For every byte sequence s, well-formed UTF-8 *)
(* or not, the input <decimal len(s)> ':' s decodes to a string whose      *)
(* content is s, and encoding that string gives the input back.            *)
C2_ByteStringFidelity ==
    \A s \in Payloads :
        (vals = <<>> /\ RefStr(stream, s) /\ Decoded) =>
            /\ First.kind = "Some"
            /\ First.val = VStr(s)
            /\ to_bencode(First.val) = {stream}

(* C3: to_bencode is the reference encoder.  What Encode has written is,   *)
(* value by value, 'i' decimal 'e' for an integer, decimal byte length ':' *)
(* bytes for a string, 'l' items 'e' in order for a list, and 'd' entries  *)
(* 'e' for a map with every entry once, key then value, in some order.     *)
C3_EncoderMatchesReference ==
    (vals # <<>> /\ ~Decoded) => RefItems(stream, SubSeq(vals, 1, nsent))

C3_Witness ==
    /\ nsent = 1
    /\ vals[1].tag = "Map"
    /\ \E e \in vals[1].entries :
          /\ e[2].tag = "Map"
          /\ Cardinality(e[2].entries) = 2
          /\ VStr(LongStr) \in MapKeys(e[2].entries)
          /\ VInt(I32_MIN) \in MapKeys(e[2].entries)

(* C4: in a map at any nesting depth, a key followed by the terminator 'e' *)
(* where its value should start makes the outermost call fail with the     *)
(* Error "Map is missing value for key": no map is returned and the call   *)
(* does not end abnormally.                                                *)
C4_MissingValueIsError ==
    (vals = <<>> /\ stream \in MissingValueInputs /\ Decoded) =>
        /\ First.kind = "Error"
        /\ First.msg = MSG_MISSING
        /\ First.val = NoValue

C4_Witness ==
    /\ vals = <<>>
    /\ \E c \in Contexts(1) \ Contexts(0) :
          stream = c.bytes \o <<ch_d, ch_1 + 2, ch_colon, 102, 111, 111, ch_e, ch_e, ch_e>>
    /\ Decoded
    /\ First.msg = MSG_MISSING

(* streams that end inside an integer, and inside the length of a string *)
TruncatedInt(s) == s # <<>> /\ s[1] = ch_i /\ \A j \in 2..Len(s) : s[j] # ch_e
TruncatedLen(s) == s # <<>> /\ s[1] >= ch_1 /\ s[1] <= ch_9
                      /\ \A j \in 2..Len(s) : IsDigit(s[j])

(* C5: a stream that ends after the lead byte 'i' and before the closing   *)
(* 'e', or after a leading length digit and before the ':', makes          *)
(* parse_bencode fail with Eof: no value, no panic.                        *)
C5_TruncatedIsEof ==
    (vals = <<>> /\ (TruncatedInt(stream) \/ TruncatedLen(stream)) /\ Decoded) =>
        First.kind = "Eof"

(* C6: for the input 'i' body 'e', parse_bencode returns Int(n) exactly    *)
(* when body is an optional '-' and one or more digits of value n within   *)
(* the 32-bit range, and fails with Parse for every other body.            *)
C6_IntegerLiterals ==
    \A b \in IntBodies :
        (vals = <<>> /\ stream = <<ch_i>> \o b \o <<ch_e>> /\ Decoded) =>
            IF RefLiteral(b)
            THEN First.kind = "Some" /\ First.val = VInt(RefLiteralValue(b))
            ELSE First.kind = "Parse"

(* C7: for a string with lead byte '1'..'9' and declared length N, the     *)
(* call returns exactly the N bytes after the ':' as they are and leaves   *)
(* the cursor behind them; when fewer than N bytes are left it fails with  *)
(* Eof or Io.  A call during which the allocator refused the buffer is     *)
(* left out.                                                               *)
C7_ExactPayload ==
    /\ \A n \in 1..(Len(LongStr) + 1) : \A pl \in Payloads :
        (vals = <<>> /\ stream = FormatNat(n) \o <<ch_colon>> \o pl /\ Decoded) =>
            IF n <= Len(pl)
            THEN /\ First.kind = "Some"
                 /\ First.val = VStr(SubSeq(pl, 1, n))
                 /\ First.pos = Len(FormatNat(n)) + 1 + n
            ELSE First.kind \in {"Eof", "Io"}
    /\ \A ds \in HugeLens : \A pl \in HugePayloads :
        (vals = <<>> /\ stream = ds \o <<ch_colon>> \o pl /\ Decoded
            /\ First.kind # "Abort") =>
            First.kind \in {"Eof", "Io"}

(* the text of the Error for the bytes of BadLeads *)
BadLeadText ==
    [b \in BadLeads |->
        CASE b = 120      -> "invalid character: '120'"
          [] b = ch_colon -> "invalid character: '58'"
          [] b = 255      -> "invalid character: '255'"]

(* C8: at any nesting depth, the top level included, a stream that ends    *)
(* where a lead byte is to be read makes the outermost call fail with Eof, *)
(* and a lead byte that is no tag makes it fail with the Error that names  *)
(* the invalid character; no list or map built so far is returned.         *)
C8_LeadErrorsPropagate ==
    (vals = <<>> /\ Decoded) =>
        /\ stream \in LeadEofInputs =>
              First.kind = "Eof" /\ First.val = NoValue
        /\ \A b \in BadLeads :
              stream \in BadLeadInputsOf[b] =>
                  First.kind = "Error" /\ First.msg = BadLeadText[b] /\ First.val = NoValue

C8_Witness ==
    /\ vals = <<>>
    /\ \E c \in AllContexts \ Contexts(1) : \E r \in Rests :
          /\ c.expect = "value"
          /\ Len(c.bytes) >= 8
          /\ stream = c.bytes \o <<255>> \o r
    /\ Decoded
    /\ First.kind = "Error"
    /\ First.msg = "invalid character: '255'"

(* C9: on a stream that holds enc(v1)...enc(vk), k >= 0, call j returns    *)
(* Ok(Some(vj)) and consumes exactly the bytes of the encoding of vj, for  *)
(* j = 1..k, and the calls after it return Eof.                            *)
C9_OneValuePerCall ==
    Written =>
        \A j \in 1..Len(results) :
            IF j <= Len(vals)
            THEN /\ results[j].kind = "Some"
                 /\ ValueEq(results[j].val, vals[j])
                 /\ results[j].from = (IF j = 1 THEN 0 ELSE results[j - 1].pos)
                 /\ RefEncodes(SubSeq(stream, results[j].from + 1, results[j].pos), vals[j])
            ELSE /\ results[j].kind = "Eof"
                 /\ results[j].from = Len(stream)

C9_Witness ==
    /\ Len(vals) = 2
    /\ vals[1].tag = "Map"
    /\ Cardinality(vals[1].entries) = 2
    /\ vals[2] = VStr(<<>>)
    /\ Len(results) = 3
    /\ results[3].kind = "Eof"

(* C10: a call that finds the lead byte '0' with the ':' right after it    *)
(* returns the empty string and leaves the cursor exactly two bytes past   *)
(* where it started, and every byte after the pair goes to the next        *)
(* decode: to the next call at the top level, to the next element in a     *)
(* list, to the value of the entry in a map.                               *)
C10_ZeroConsumesTwoBytes ==
    /\ \A j \in 1..Len(results) :
        (vals = <<>> /\ results[j].from + 2 <= Len(stream)
            /\ stream[results[j].from + 1] = ch_0
            /\ stream[results[j].from + 2] = ch_colon) =>
            /\ results[j].kind = "Some"
            /\ results[j].val = VStr(<<>>)
            /\ results[j].pos = results[j].from + 2
    /\ \A t \in ZeroTails :
        /\ (vals = <<>> /\ stream = <<ch_0, ch_colon>> \o t.bytes /\ Len(results) >= 2) =>
              /\ results[2].from = 2
              /\ results[2].kind = "Some"
              /\ results[2].val = t.val
              /\ results[2].pos = Len(stream)
        /\ (vals = <<>> /\ stream = <<ch_l, ch_0, ch_colon>> \o t.bytes \o <<ch_e>>
                /\ Decoded) =>
              /\ First.kind = "Some"
              /\ First.val = VList(<<VStr(<<>>), t.val>>)
        /\ (vals = <<>> /\ stream = <<ch_d, ch_0, ch_colon>> \o t.bytes \o <<ch_e>>
                /\ Decoded) =>
              /\ First.kind = "Some"
              /\ First.val = VMap({<<VStr(<<>>), t.val>>})

C10_Witness ==
    /\ vals = <<>>
    /\ stream = <<ch_0, ch_colon, ch_i, ch_minus, ch_1, ch_e>>
    /\ Len(results) = 2
    /\ results[1].pos = 2
    /\ results[2].val = VInt(-1)

====
